---- MODULE Spec2Model ----
(***************************************************************************)
(* Model of the azurerm_voice_services_communications_gateway resource:    *)
(* the CustomizeDiff / Create / Update / Read / Delete handlers of         *)
(* CommunicationsGatewayResource and the expand / flatten translators      *)
(* between CommunicationsGatewayModel and the SDK's CommunicationsGateway. *)
(*                                                                         *)
(* Go values are encoded as follows.                                       *)
(*   - a string, a bool: the TLA+ string, boolean;                         *)
(*   - a slice: NilSlice (the nil slice) or MkSlice(s), s a sequence;      *)
(*   - a pointer: NilPtr or AddrOf(v);                                     *)
(*   - an interface{} value: NilIface or Iface(v);                         *)
(*   - a map[string]string: NilMap or MkMap(set of <<key, value>>).        *)
(* The remote API client is an external collaborator: every handler is     *)
(* given the responses its calls receive.                                  *)
(***************************************************************************)
EXTENDS Naturals, Sequences, FiniteSets, TLC

VARIABLES
    id,       \* metadata.ResourceData.Id(): "" when nothing is tracked
    encoded,  \* the Model that handler passed to metadata.Encode, NilPtr if none
    op,       \* the handler that ran last
    model,    \* the CommunicationsGatewayModel that handler decoded
    changed,  \* the keys for which ResourceData.HasChange is true (Update)
    fetched,  \* the response client.Get gave that handler, NilPtr if not called
    sent,     \* the resource passed to CreateOrUpdateThenPoll, NilPtr if none
    deleted,  \* the response of client.DeleteThenPoll, NilPtr if not called
    calls,    \* the remote calls the handler issued, in order
    result    \* what the handler returned

vars == <<id, encoded, op, model, changed, fetched, sent, deleted, calls, result>>

----------------------------------------------------------------------------
(* Go value encodings *)

NilSlice == <<>>
MkSlice(s) == <<s>>
IsNilSlice(x) == x = <<>>
Elems(x) == IF x = <<>> THEN <<>> ELSE x[1]
GoLen(x) == Len(Elems(x))

NilPtr == <<>>
AddrOf(v) == <<v>>
Deref(p) == p[1]

NilIface == <<>>
Iface(v) == <<v>>

NilMap == <<>>
MkMap(pairs) == <<pairs>>

SeqMap(F(_), s) == [i \in 1..Len(s) |-> F(s[i])]

\* all sequences over S of length 0..n
RECURSIVE SeqsUpTo(_, _)
SeqsUpTo(S, n) ==
    IF n = 0 THEN {<<>>}
    ELSE LET shorter == SeqsUpTo(S, n - 1)
         IN  shorter \cup {Append(s, x) : s \in {t \in shorter : Len(t) = n - 1}, x \in S}

----------------------------------------------------------------------------
(* Enumerations of the schema (Arguments) *)

E911TypeStandard == "Standard"
E911TypeDirectToEsrp == "DirectToEsrp"
E911Types == {E911TypeDirectToEsrp, E911TypeStandard}

ConnectivityPublicAddress == "PublicAddress"
Codecs == {"PCMA", "PCMU"}

\* the configuration keys Update inspects with HasChange
Keys == {"codecs", "e911_type", "platforms", "service_location", "api_bridge",
         "emergency_dial_strings", "on_prem_mcp_enabled", "tags",
         "microsoft_teams_voicemail_pilot_number"}

----------------------------------------------------------------------------
(* External collaborators *)

\* location.Normalize: lower-cases the name and strips its spaces
Normalize(l) ==
    CASE l = "West Europe" -> "westeurope"
      [] l = "East US" -> "eastus"
      [] OTHER -> l

\* encoding/json on the api_bridge texts the model draws from
JsonTexts == {"", "[1]", "[ 1 ]", "null", "[1"}
JsonArray == [kind |-> "array", elems |-> <<1>>]
JsonObject == [kind |-> "object", elems |-> <<>>]
\* json.Unmarshal([]byte(text), &v): the error and the value left in v
Unmarshal(text) ==
    CASE text = "[1]" -> [err |-> FALSE, val |-> Iface(JsonArray)]
      [] text = "[ 1 ]" -> [err |-> FALSE, val |-> Iface(JsonArray)]
      [] text = "{}" -> [err |-> FALSE, val |-> Iface(JsonObject)]
      [] text = "null" -> [err |-> FALSE, val |-> NilIface]
      [] OTHER -> [err |-> TRUE, val |-> NilIface]
\* json.Marshal(v) of a non-nil interface value
Marshal(v) ==
    CASE v = Iface(JsonArray) -> "[1]"
      [] v = Iface(JsonObject) -> "{}"
      [] OTHER -> "null"

\* utils.StringSlice: nil for a nil slice, else the address of the slice
StringSlice(input) == IF IsNilSlice(input) THEN NilPtr ELSE AddrOf(input)

\* the composite identity and its path rendering
SubscriptionId == "sub"
NewCommunicationsGatewayID(subscriptionId, resourceGroupName, name) ==
    [SubscriptionId |-> subscriptionId,
     ResourceGroupName |-> resourceGroupName,
     CommunicationsGatewayName |-> name]
IdString(i) ==
    "/subscriptions/" \o i.SubscriptionId \o "/resourceGroups/" \o i.ResourceGroupName
      \o "/providers/Microsoft.VoiceServices/communicationsGateways/"
      \o i.CommunicationsGatewayName
GatewayID == NewCommunicationsGatewayID(SubscriptionId, "rg", "gw1")
KnownIDs == {GatewayID}
\* ParseCommunicationsGatewayID: fails on anything that is no rendered identity
ParseCommunicationsGatewayID(s) ==
    IF \E i \in KnownIDs : IdString(i) = s
    THEN [err |-> FALSE, id |-> AddrOf(CHOOSE i \in KnownIDs : IdString(i) = s)]
    ELSE [err |-> TRUE, id |-> NilPtr]

\* the responses of client.Get
StatusOK == "200 OK"
StatusNotFound == "404 Not Found"
StatusError == "500 Internal Server Error"
Found(r) == [err |-> FALSE, status |-> StatusOK, Model |-> AddrOf(r)]
FoundNoModel == [err |-> FALSE, status |-> StatusOK, Model |-> NilPtr]
NotFound == [err |-> TRUE, status |-> StatusNotFound, Model |-> NilPtr]
Failed == [err |-> TRUE, status |-> StatusError, Model |-> NilPtr]
\* response.WasNotFound
WasNotFound(resp) == resp.status = StatusNotFound

----------------------------------------------------------------------------
(* The models *)

ServiceRegionPropertiesModel(loc, operator, media, signaling, esrp) ==
    [Location |-> loc,
     OperatorAddresses |-> operator,
     AllowedMediaSourceAddressPrefixes |-> media,
     AllowedSignalingSourceAddressPrefixes |-> signaling,
     EsrpAddresses |-> esrp]

\* the zero value of CommunicationsGatewayModel
ZeroModel ==
    [Name |-> "",
     ResourceGroupName |-> "",
     ApiBridge |-> "",
     AutoGeneratedDomainNameLabelScope |-> "",
     Codecs |-> "",
     Connectivity |-> "",
     E911Type |-> "",
     EmergencyDialStrings |-> NilSlice,
     Location |-> "",
     OnPremMcpEnabled |-> FALSE,
     Platforms |-> NilSlice,
     ServiceLocation |-> NilSlice,
     Tags |-> NilMap,
     MicrosoftTeamsVoicemailPilotNumber |-> ""]

----------------------------------------------------------------------------
(* Translators *)

\* a plausible slip: an empty list is dropped like an unset one
expandRegionDropEmpty(v) ==
    LET wrap(s) == IF GoLen(s) = 0 THEN NilPtr ELSE AddrOf(s)
    IN  [Name |-> Normalize(v.Location),
         PrimaryRegionProperties |->
            [AllowedMediaSourceAddressPrefixes |-> wrap(v.AllowedMediaSourceAddressPrefixes),
             AllowedSignalingSourceAddressPrefixes |-> wrap(v.AllowedSignalingSourceAddressPrefixes),
             EsrpAddresses |-> wrap(v.EsrpAddresses),
             OperatorAddresses |-> v.OperatorAddresses]]

\* a plausible slip: esrp_addresses left out of the expanded entry
expandRegionNoEsrp(v) ==
    [Name |-> Normalize(v.Location),
     PrimaryRegionProperties |->
        [AllowedMediaSourceAddressPrefixes |-> StringSlice(v.AllowedMediaSourceAddressPrefixes),
         AllowedSignalingSourceAddressPrefixes |-> StringSlice(v.AllowedSignalingSourceAddressPrefixes),
         EsrpAddresses |-> NilPtr,
         OperatorAddresses |-> v.OperatorAddresses]]

expandRegion(v) ==
    [Name |-> Normalize(v.Location),
     PrimaryRegionProperties |->
        [AllowedMediaSourceAddressPrefixes |-> StringSlice(v.AllowedMediaSourceAddressPrefixes),
         AllowedSignalingSourceAddressPrefixes |-> StringSlice(v.AllowedSignalingSourceAddressPrefixes),
         EsrpAddresses |-> StringSlice(v.EsrpAddresses),
         OperatorAddresses |-> v.OperatorAddresses]]

expandServiceRegionPropertiesModel(inputList) ==
    MkSlice(SeqMap(expandRegion, Elems(inputList)))

expandCommunicationsPlatformModel(input) ==
    IF GoLen(input) = 0 THEN NilSlice ELSE MkSlice(Elems(input))

\* a plausible slip: the two prefix lists read from each other's field
flattenRegionSwapped(input) ==
    LET v == input.PrimaryRegionProperties
        deref(p) == IF p # NilPtr THEN Deref(p) ELSE NilSlice
    IN  ServiceRegionPropertiesModel(
            Normalize(input.Name),
            v.OperatorAddresses,
            deref(v.AllowedSignalingSourceAddressPrefixes),
            deref(v.AllowedMediaSourceAddressPrefixes),
            deref(v.EsrpAddresses))

flattenRegion(input) ==
    LET v == input.PrimaryRegionProperties
        deref(p) == IF p # NilPtr THEN Deref(p) ELSE NilSlice
    IN  ServiceRegionPropertiesModel(
            Normalize(input.Name),
            v.OperatorAddresses,
            deref(v.AllowedMediaSourceAddressPrefixes),
            deref(v.AllowedSignalingSourceAddressPrefixes),
            deref(v.EsrpAddresses))

\* inputList is a pointer to the slice
flattenServiceRegionPropertiesModel(inputList) ==
    IF inputList = NilPtr THEN MkSlice(<<>>)
    ELSE MkSlice(SeqMap(flattenRegion, Elems(Deref(inputList))))

flattenCommunicationsPlatformModel(input) ==
    IF GoLen(input) = 0 THEN NilSlice ELSE MkSlice(Elems(input))

----------------------------------------------------------------------------
(* Handlers.  Each *Run operator is the handler's function body: from the  *)
(* decoded inputs and the responses of the remote calls it computes what   *)
(* the handler returns and does.                                           *)

ResultOK == "ok"
ErrImportRequired == "import required"
ErrEsrpStandard == "error: esrp_addresses must not be provided when e911_type is Standard"
ErrEsrpDirect == "error: esrp_addresses must be provided when e911_type is DirectToEsrp"
ErrParseID == "error: parsing the resource id"
ErrChecking == "error: checking for presence of existing"
ErrUnmarshal == "error: unmarshalling value for ApiBridge"
ErrCreating == "error: creating"
ErrRetrieving == "error: retrieving"
ErrModelNil == "error: retrieving: model was nil"
ErrUpdating == "error: updating"
ErrDeleting == "error: deleting"
Panic == "panic: nil pointer dereference"
Errors == {ErrImportRequired, ErrEsrpStandard, ErrEsrpDirect, ErrParseID, ErrChecking,
           ErrUnmarshal, ErrCreating, ErrRetrieving, ErrModelNil, ErrUpdating, ErrDeleting}

\* what a handler leaves behind
Outcome(newId, enc, got, put, issued, res) ==
    [id |-> newId, encoded |-> enc, fetched |-> got, sent |-> put,
     deleted |-> NilPtr, calls |-> issued, result |-> res]

\* metadata.ResourceRequiresImport: the import-required error
ResourceRequiresImport == ErrImportRequired
\* metadata.SetID: the rendered identity becomes the tracked id
SetID(i) == IdString(i)
\* metadata.MarkAsGone: the tracked id is cleared, and nil is returned
MarkAsGone == [id |-> "", result |-> ResultOK]

\* the loop of CustomizeDiff over model.ServiceLocation, from entry i on
RECURSIVE EsrpCheckFrom(_, _, _)
EsrpCheckFrom(e911, sls, i) ==
    IF i > Len(sls) THEN ResultOK
    ELSE IF e911 = E911TypeStandard
         THEN IF GoLen(sls[i].EsrpAddresses) > 0
              THEN ErrEsrpStandard
              ELSE EsrpCheckFrom(e911, sls, i + 1)
         ELSE IF GoLen(sls[i].EsrpAddresses) = 0
              THEN ErrEsrpDirect
              ELSE EsrpCheckFrom(e911, sls, i + 1)

\* a plausible slip: only the first entry is looked at
CustomizeDiffFirstOnly(m) ==
    EsrpCheckFrom(m.E911Type,
                  IF GoLen(m.ServiceLocation) = 0 THEN <<>>
                  ELSE <<Elems(m.ServiceLocation)[1]>>, 1)

CustomizeDiffRun(m) ==
    EsrpCheckFrom(m.E911Type, Elems(m.ServiceLocation), 1)

\* the api_bridge value Create sends: the zero interface{} unless the text parses
CreateApiBridge(m) ==
    IF m.ApiBridge # "" THEN Unmarshal(m.ApiBridge)
    ELSE [err |-> FALSE, val |-> NilIface]

\* the CommunicationsGateway Create builds from the model
CreateProperties(m) ==
    [Location |-> Normalize(m.Location),
     Properties |-> AddrOf(
        [AutoGeneratedDomainNameLabelScope |-> AddrOf(m.AutoGeneratedDomainNameLabelScope),
         Connectivity |-> m.Connectivity,
         Codecs |-> MkSlice(<<m.Codecs>>),
         E911Type |-> m.E911Type,
         Platforms |-> expandCommunicationsPlatformModel(m.Platforms),
         ServiceLocations |-> expandServiceRegionPropertiesModel(m.ServiceLocation),
         ApiBridge |-> AddrOf(CreateApiBridge(m).val),
         EmergencyDialStrings |->
            IF ~IsNilSlice(m.EmergencyDialStrings)
            THEN AddrOf(m.EmergencyDialStrings) ELSE NilPtr,
         OnPremMcpEnabled |-> AddrOf(m.OnPremMcpEnabled),
         TeamsVoicemailPilotNumber |-> AddrOf(m.MicrosoftTeamsVoicemailPilotNumber)]),
     Tags |-> AddrOf(m.Tags)]

\* a plausible slip: an existing resource is adopted instead of refused
CreateRunAdoptExisting(oldId, m, get, cou) ==
    LET newId == NewCommunicationsGatewayID(SubscriptionId, m.ResourceGroupName, m.Name)
    IN  IF get.err /\ ~WasNotFound(get)
        THEN Outcome(oldId, NilPtr, AddrOf(get), NilPtr, <<"Get">>, ErrChecking)
        ELSE IF CreateApiBridge(m).err
        THEN Outcome(oldId, NilPtr, AddrOf(get), NilPtr, <<"Get">>, ErrUnmarshal)
        ELSE IF cou
        THEN Outcome(oldId, NilPtr, AddrOf(get), AddrOf(CreateProperties(m)),
                     <<"Get", "CreateOrUpdate">>, ErrCreating)
        ELSE Outcome(SetID(newId), NilPtr, AddrOf(get), AddrOf(CreateProperties(m)),
                     <<"Get", "CreateOrUpdate">>, ResultOK)

\* Create: get is the response of client.Get, cou the error of
\* CreateOrUpdateThenPoll (TRUE when it fails)
CreateRun(oldId, m, get, cou) ==
    LET newId == NewCommunicationsGatewayID(SubscriptionId, m.ResourceGroupName, m.Name)
    IN  IF get.err /\ ~WasNotFound(get)
        THEN Outcome(oldId, NilPtr, AddrOf(get), NilPtr, <<"Get">>, ErrChecking)
        ELSE IF ~WasNotFound(get)
        THEN Outcome(oldId, NilPtr, AddrOf(get), NilPtr, <<"Get">>, ResourceRequiresImport)
        ELSE IF CreateApiBridge(m).err
        THEN Outcome(oldId, NilPtr, AddrOf(get), NilPtr, <<"Get">>, ErrUnmarshal)
        ELSE IF cou
        THEN Outcome(oldId, NilPtr, AddrOf(get), AddrOf(CreateProperties(m)),
                     <<"Get", "CreateOrUpdate">>, ErrCreating)
        ELSE Outcome(SetID(newId), NilPtr, AddrOf(get), AddrOf(CreateProperties(m)),
                     <<"Get", "CreateOrUpdate">>, ResultOK)

\* Update's walk over the changed keys.  acc.res is *properties (the fetched
\* resource, modified in place), acc.out is "run" until the handler returns
\* or a write goes through a nil properties.Properties.
SetProperty(acc, ch, key, field, value) ==
    IF acc.out # "run" \/ key \notin ch THEN acc
    ELSE IF acc.res.Properties = NilPtr THEN [acc EXCEPT !.out = Panic]
    ELSE [acc EXCEPT !.res.Properties = AddrOf([Deref(@) EXCEPT ![field] = value])]

\* a plausible slip: the parse error is dropped and the zero value sent
SetApiBridgeIgnoreError(acc, ch, m) ==
    IF acc.out # "run" \/ "api_bridge" \notin ch THEN acc
    ELSE IF m.ApiBridge # ""
         THEN SetProperty(acc, ch, "api_bridge", "ApiBridge",
                          AddrOf(Unmarshal(m.ApiBridge).val))
         ELSE SetProperty(acc, ch, "api_bridge", "ApiBridge", NilPtr)

\* a plausible slip: an empty input sent as Create sends it
SetApiBridgeLikeCreate(acc, ch, m) ==
    IF acc.out # "run" \/ "api_bridge" \notin ch THEN acc
    ELSE IF CreateApiBridge(m).err
         THEN [acc EXCEPT !.out = ErrUnmarshal]
         ELSE SetProperty(acc, ch, "api_bridge", "ApiBridge", AddrOf(CreateApiBridge(m).val))

SetApiBridge(acc, ch, m) ==
    IF acc.out # "run" \/ "api_bridge" \notin ch THEN acc
    ELSE IF m.ApiBridge # ""
         THEN IF Unmarshal(m.ApiBridge).err
              THEN [acc EXCEPT !.out = ErrUnmarshal]
              ELSE SetProperty(acc, ch, "api_bridge", "ApiBridge",
                               AddrOf(Unmarshal(m.ApiBridge).val))
         ELSE SetProperty(acc, ch, "api_bridge", "ApiBridge", NilPtr)

SetTags(acc, ch, m) ==
    IF acc.out # "run" \/ "tags" \notin ch THEN acc
    ELSE [acc EXCEPT !.res.Tags = AddrOf(m.Tags)]

\* a plausible slip: a full replace, every mutable field written from the model
UpdatePropertiesReplaceAll(res, m, ch) ==
    LET a0 == [res |-> res, out |-> "run"]
        a1 == SetProperty(a0, Keys, "codecs", "Codecs", MkSlice(<<m.Codecs>>))
        a2 == SetProperty(a1, Keys, "e911_type", "E911Type", m.E911Type)
        a3 == SetProperty(a2, Keys, "platforms", "Platforms",
                          expandCommunicationsPlatformModel(m.Platforms))
        a4 == SetProperty(a3, Keys, "service_location", "ServiceLocations",
                          expandServiceRegionPropertiesModel(m.ServiceLocation))
        a5 == SetApiBridge(a4, Keys, m)
        a6 == SetProperty(a5, Keys, "emergency_dial_strings", "EmergencyDialStrings",
                          AddrOf(m.EmergencyDialStrings))
        a7 == SetProperty(a6, Keys, "on_prem_mcp_enabled", "OnPremMcpEnabled",
                          AddrOf(m.OnPremMcpEnabled))
        a8 == SetTags(a7, Keys, m)
    IN  SetProperty(a8, Keys, "microsoft_teams_voicemail_pilot_number",
                    "TeamsVoicemailPilotNumber", AddrOf(m.MicrosoftTeamsVoicemailPilotNumber))

\* the resource Update builds from the fetched one, key by key in the code's order
UpdateProperties(res, m, ch) ==
    LET a0 == [res |-> res, out |-> "run"]
        a1 == SetProperty(a0, ch, "codecs", "Codecs", MkSlice(<<m.Codecs>>))
        a2 == SetProperty(a1, ch, "e911_type", "E911Type", m.E911Type)
        a3 == SetProperty(a2, ch, "platforms", "Platforms",
                          expandCommunicationsPlatformModel(m.Platforms))
        a4 == SetProperty(a3, ch, "service_location", "ServiceLocations",
                          expandServiceRegionPropertiesModel(m.ServiceLocation))
        a5 == SetApiBridge(a4, ch, m)
        a6 == SetProperty(a5, ch, "emergency_dial_strings", "EmergencyDialStrings",
                          AddrOf(m.EmergencyDialStrings))
        a7 == SetProperty(a6, ch, "on_prem_mcp_enabled", "OnPremMcpEnabled",
                          AddrOf(m.OnPremMcpEnabled))
        a8 == SetTags(a7, ch, m)
    IN  SetProperty(a8, ch, "microsoft_teams_voicemail_pilot_number",
                    "TeamsVoicemailPilotNumber", AddrOf(m.MicrosoftTeamsVoicemailPilotNumber))

\* Update: ch is the set of keys HasChange reports, get the response of
\* client.Get, cou the error of CreateOrUpdateThenPoll
UpdateRun(oldId, m, ch, get, cou) ==
    IF ParseCommunicationsGatewayID(oldId).err
    THEN Outcome(oldId, NilPtr, NilPtr, NilPtr, <<>>, ErrParseID)
    ELSE IF get.err
    THEN Outcome(oldId, NilPtr, AddrOf(get), NilPtr, <<"Get">>, ErrRetrieving)
    ELSE IF get.Model = NilPtr
    THEN Outcome(oldId, NilPtr, AddrOf(get), NilPtr, <<"Get">>, ErrModelNil)
    ELSE LET built == UpdateProperties(Deref(get.Model), m, ch)
         IN  IF built.out # "run"
             THEN Outcome(oldId, NilPtr, AddrOf(get), NilPtr, <<"Get">>, built.out)
             ELSE Outcome(oldId, NilPtr, AddrOf(get), AddrOf(built.res),
                          <<"Get", "CreateOrUpdate">>,
                          IF cou THEN ErrUpdating ELSE ResultOK)

\* the Model Read builds from the fetched resource
ReadState(i, res) ==
    LET s0 == [ZeroModel EXCEPT !.Name = i.CommunicationsGatewayName,
                                !.ResourceGroupName = i.ResourceGroupName,
                                !.Location = Normalize(res.Location)]
        s1 == IF res.Properties = NilPtr THEN s0
              ELSE LET properties == Deref(res.Properties)
                   IN  [s0 EXCEPT
                         !.Connectivity = properties.Connectivity,
                         !.Codecs = IF ~IsNilSlice(properties.Codecs) /\ GoLen(properties.Codecs) > 0
                                    THEN Elems(properties.Codecs)[1] ELSE "",
                         !.E911Type = properties.E911Type,
                         !.Platforms = flattenCommunicationsPlatformModel(properties.Platforms),
                         !.ServiceLocation =
                            flattenServiceRegionPropertiesModel(AddrOf(properties.ServiceLocations)),
                         !.AutoGeneratedDomainNameLabelScope =
                            IF properties.AutoGeneratedDomainNameLabelScope # NilPtr
                            THEN Deref(properties.AutoGeneratedDomainNameLabelScope) ELSE @,
                         !.ApiBridge =
                            IF properties.ApiBridge # NilPtr /\ Deref(properties.ApiBridge) # NilIface
                            THEN Marshal(Deref(properties.ApiBridge)) ELSE @,
                         !.EmergencyDialStrings =
                            IF properties.EmergencyDialStrings # NilPtr
                            THEN Deref(properties.EmergencyDialStrings) ELSE @,
                         !.OnPremMcpEnabled =
                            IF properties.OnPremMcpEnabled # NilPtr
                            THEN Deref(properties.OnPremMcpEnabled) ELSE FALSE,
                         !.MicrosoftTeamsVoicemailPilotNumber =
                            IF properties.TeamsVoicemailPilotNumber # NilPtr
                            THEN Deref(properties.TeamsVoicemailPilotNumber) ELSE ""]
    IN  IF res.Tags # NilPtr THEN [s1 EXCEPT !.Tags = Deref(res.Tags)] ELSE s1

\* a plausible slip: not-found handled like any other failure
ReadRunNotFoundFatal(oldId, get) ==
    IF ParseCommunicationsGatewayID(oldId).err
    THEN Outcome(oldId, NilPtr, NilPtr, NilPtr, <<>>, ErrParseID)
    ELSE IF get.err
    THEN Outcome(oldId, NilPtr, AddrOf(get), NilPtr, <<"Get">>, ErrRetrieving)
    ELSE IF get.Model = NilPtr
    THEN Outcome(oldId, NilPtr, AddrOf(get), NilPtr, <<"Get">>, ErrModelNil)
    ELSE Outcome(oldId,
                 AddrOf(ReadState(Deref(ParseCommunicationsGatewayID(oldId).id),
                                  Deref(get.Model))),
                 AddrOf(get), NilPtr, <<"Get">>, ResultOK)

\* Read: get is the response of client.Get
ReadRun(oldId, get) ==
    IF ParseCommunicationsGatewayID(oldId).err
    THEN Outcome(oldId, NilPtr, NilPtr, NilPtr, <<>>, ErrParseID)
    ELSE IF get.err
    THEN IF WasNotFound(get)
         THEN Outcome(MarkAsGone.id, NilPtr, AddrOf(get), NilPtr, <<"Get">>, MarkAsGone.result)
         ELSE Outcome(oldId, NilPtr, AddrOf(get), NilPtr, <<"Get">>, ErrRetrieving)
    ELSE IF get.Model = NilPtr
    THEN Outcome(oldId, NilPtr, AddrOf(get), NilPtr, <<"Get">>, ErrModelNil)
    ELSE Outcome(oldId,
                 AddrOf(ReadState(Deref(ParseCommunicationsGatewayID(oldId).id),
                                  Deref(get.Model))),
                 AddrOf(get), NilPtr, <<"Get">>, ResultOK)

\* the responses of client.DeleteThenPoll
Deleted == [err |-> FALSE, status |-> StatusOK, Model |-> NilPtr]
DeleteResponses == {Deleted, NotFound, Failed}

\* a plausible slip: Delete given Read's tolerance of not-found
DeleteRunTolerant(oldId, del) ==
    IF ParseCommunicationsGatewayID(oldId).err
    THEN [Outcome(oldId, NilPtr, NilPtr, NilPtr, <<>>, ErrParseID) EXCEPT !.deleted = NilPtr]
    ELSE IF del.err /\ ~WasNotFound(del)
    THEN [Outcome(oldId, NilPtr, NilPtr, NilPtr, <<"Delete">>, ErrDeleting)
            EXCEPT !.deleted = AddrOf(del)]
    ELSE [Outcome(IF del.err THEN "" ELSE oldId, NilPtr, NilPtr, NilPtr, <<"Delete">>, ResultOK)
            EXCEPT !.deleted = AddrOf(del)]

\* Delete: del is the response of client.DeleteThenPoll
DeleteRun(oldId, del) ==
    IF ParseCommunicationsGatewayID(oldId).err
    THEN [Outcome(oldId, NilPtr, NilPtr, NilPtr, <<>>, ErrParseID) EXCEPT !.deleted = NilPtr]
    ELSE IF del.err
    THEN [Outcome(oldId, NilPtr, NilPtr, NilPtr, <<"Delete">>, ErrDeleting)
            EXCEPT !.deleted = AddrOf(del)]
    ELSE [Outcome(oldId, NilPtr, NilPtr, NilPtr, <<"Delete">>, ResultOK)
            EXCEPT !.deleted = AddrOf(del)]

----------------------------------------------------------------------------
(* The inputs the handlers are run on *)

\* the longest service_location list
MaxLocs == 2

AddressLists == {NilSlice, MkSlice(<<>>), MkSlice(<<"198.51.100.1">>)}

\* entries that differ in their esrp_addresses
EsrpEntries ==
    {ServiceRegionPropertiesModel("West Europe", MkSlice(<<"192.0.2.1">>),
                                  NilSlice, NilSlice, esrp) : esrp \in AddressLists}

\* the fields the ESRP rule does not read come in two profiles
ProfileA ==
    [ZeroModel EXCEPT
        !.Name = "gw1", !.ResourceGroupName = "rg",
        !.AutoGeneratedDomainNameLabelScope = "TenantReuse",
        !.Codecs = "PCMA", !.Connectivity = ConnectivityPublicAddress,
        !.Location = "West Europe",
        !.Platforms = MkSlice(<<"OperatorConnect">>)]
ProfileB ==
    [ZeroModel EXCEPT
        !.Name = "gw1", !.ResourceGroupName = "rg",
        !.AutoGeneratedDomainNameLabelScope = "NoReuse",
        !.Codecs = "PCMU", !.Connectivity = ConnectivityPublicAddress,
        !.EmergencyDialStrings = MkSlice(<<"911", "112">>),
        !.Location = "eastus",
        !.OnPremMcpEnabled = TRUE,
        !.Platforms = MkSlice(<<"TeamsPhoneMobile", "OperatorConnect">>),
        !.Tags = MkMap({<<"env", "prod">>}),
        !.MicrosoftTeamsVoicemailPilotNumber = "+15550100"]
Profiles == {ProfileA, ProfileB}

Models ==
    {[p EXCEPT !.ApiBridge = a, !.E911Type = e, !.ServiceLocation = MkSlice(sl)] :
        p \in Profiles, a \in JsonTexts, e \in E911Types,
        sl \in SeqsUpTo(EsrpEntries, MaxLocs)}

\* the models Update is run on: one service_location list per e911_type
UpdateModels ==
    {m \in Models :
        \/ /\ m.E911Type = E911TypeStandard
           /\ Elems(m.ServiceLocation) = <<ServiceRegionPropertiesModel(
                 "West Europe", MkSlice(<<"192.0.2.1">>), NilSlice, NilSlice, NilSlice)>>
        \/ /\ m.E911Type = E911TypeDirectToEsrp
           /\ Elems(m.ServiceLocation) = <<ServiceRegionPropertiesModel(
                 "West Europe", MkSlice(<<"192.0.2.1">>), NilSlice, NilSlice,
                 MkSlice(<<"198.51.100.1">>))>>}

\* resources the remote side may hold: one changed out of band since it was
\* created, one with every optional field absent, one without properties
RemoteFull ==
    [Location |-> "westeurope",
     Properties |-> AddrOf(
        [AutoGeneratedDomainNameLabelScope |-> AddrOf("SubscriptionReuse"),
         Connectivity |-> ConnectivityPublicAddress,
         Codecs |-> MkSlice(<<"G722", "PCMA">>),
         E911Type |-> E911TypeStandard,
         Platforms |-> MkSlice(<<"TeamsPhoneMobile">>),
         ServiceLocations |-> MkSlice(<<
            [Name |-> "uksouth",
             PrimaryRegionProperties |->
                [AllowedMediaSourceAddressPrefixes |-> AddrOf(MkSlice(<<"203.0.113.0/24">>)),
                 AllowedSignalingSourceAddressPrefixes |-> AddrOf(MkSlice(<<>>)),
                 EsrpAddresses |-> NilPtr,
                 OperatorAddresses |-> MkSlice(<<"192.0.2.9">>)]]>>),
         ApiBridge |-> AddrOf(Iface(JsonObject)),
         EmergencyDialStrings |-> AddrOf(MkSlice(<<"999">>)),
         OnPremMcpEnabled |-> AddrOf(FALSE),
         TeamsVoicemailPilotNumber |-> AddrOf("+442079460000")]),
     Tags |-> AddrOf(MkMap({<<"owner", "ops">>}))]
RemoteSparse ==
    [Location |-> "East US",
     Properties |-> AddrOf(
        [AutoGeneratedDomainNameLabelScope |-> NilPtr,
         Connectivity |-> ConnectivityPublicAddress,
         Codecs |-> NilSlice,
         E911Type |-> E911TypeDirectToEsrp,
         Platforms |-> NilSlice,
         ServiceLocations |-> NilSlice,
         ApiBridge |-> AddrOf(NilIface),
         EmergencyDialStrings |-> NilPtr,
         OnPremMcpEnabled |-> NilPtr,
         TeamsVoicemailPilotNumber |-> NilPtr]),
     Tags |-> NilPtr]
RemoteNoProperties ==
    [Location |-> "westeurope", Properties |-> NilPtr, Tags |-> AddrOf(NilMap)]
Remotes == {RemoteFull, RemoteSparse, RemoteNoProperties}

GetResponses == {NotFound, Failed, FoundNoModel} \cup {Found(r) : r \in Remotes}

----------------------------------------------------------------------------
(* The state machine: the host runs one handler at a time *)

Idle == op = "none"

Init ==
    /\ id \in {"", IdString(GatewayID)}
    /\ encoded = NilPtr
    /\ op = "none"
    /\ model = ZeroModel
    /\ changed = {}
    /\ fetched = NilPtr
    /\ sent = NilPtr
    /\ deleted = NilPtr
    /\ calls = <<>>
    /\ result = "none"

\* the handler's outcome becomes the state
Leave(o) ==
    /\ id' = o.id
    /\ encoded' = o.encoded
    /\ fetched' = o.fetched
    /\ sent' = o.sent
    /\ deleted' = o.deleted
    /\ calls' = o.calls
    /\ result' = o.result

CustomizeDiff(m) ==
    /\ op' = "CustomizeDiff"
    /\ model' = m
    /\ changed' = {}
    /\ Leave(Outcome(id, NilPtr, NilPtr, NilPtr, <<>>, CustomizeDiffRun(m)))

Create(m, get, cou) ==
    /\ op' = "Create"
    /\ model' = m
    /\ changed' = {}
    /\ Leave(CreateRun(id, m, get, cou))

Update(m, ch, get, cou) ==
    /\ op' = "Update"
    /\ model' = m
    /\ changed' = ch
    /\ Leave(UpdateRun(id, m, ch, get, cou))

Read(get) ==
    /\ op' = "Read"
    /\ UNCHANGED <<model, changed>>
    /\ Leave(ReadRun(id, get))

Delete(del) ==
    /\ op' = "Delete"
    /\ UNCHANGED <<model, changed>>
    /\ Leave(DeleteRun(id, del))

\* the handler has returned; the host keeps the tracked id only
Return ==
    /\ ~Idle
    /\ op' = "none"
    /\ model' = ZeroModel
    /\ changed' = {}
    /\ Leave(Outcome(id, NilPtr, NilPtr, NilPtr, <<>>, "none"))

DoCustomizeDiff == Idle /\ \E m \in Models : CustomizeDiff(m)
DoCreate == Idle /\ \E m \in Models, get \in GetResponses, cou \in BOOLEAN : Create(m, get, cou)
DoUpdate ==
    Idle /\ \E m \in UpdateModels, ch \in SUBSET Keys, get \in GetResponses, cou \in BOOLEAN :
                Update(m, ch, get, cou)
DoRead == Idle /\ \E get \in GetResponses : Read(get)
DoDelete == Idle /\ \E del \in DeleteResponses : Delete(del)

Next == DoCustomizeDiff \/ DoCreate \/ DoUpdate \/ DoRead \/ DoDelete \/ Return

Spec == Init /\ [][Next]_vars

----------------------------------------------------------------------------
(* The translators alone: Create expands a model, Read flattens what was sent *)

\* entries in every combination of unset, empty and populated optional lists
ExpandEntries ==
    {ServiceRegionPropertiesModel("West Europe", MkSlice(<<"192.0.2.1">>), media, signaling, esrp) :
        media \in AddressLists, signaling \in AddressLists, esrp \in AddressLists}
    \cup {ServiceRegionPropertiesModel("eastus", operator, NilSlice, NilSlice, NilSlice) :
            operator \in {NilSlice, MkSlice(<<>>)}}
ExpandModels ==
    {[ProfileA EXCEPT !.E911Type = E911TypeStandard, !.ServiceLocation = MkSlice(sl)] :
        sl \in SeqsUpTo(ExpandEntries, MaxLocs)}

\* entries with every list populated, one with none set, one with all empty
RoundTripEntries ==
    {ServiceRegionPropertiesModel("westeurope", MkSlice(<<"192.0.2.1">>),
        MkSlice(<<"198.51.100.1">>), MkSlice(<<"198.51.100.1">>), MkSlice(<<"198.51.100.1">>)),
     ServiceRegionPropertiesModel("East US", MkSlice(<<"192.0.2.2", "192.0.2.1">>),
        MkSlice(<<"203.0.113.0/24">>), MkSlice(<<"198.51.100.0/24", "203.0.113.0/24">>),
        MkSlice(<<"198.51.100.7">>)),
     ServiceRegionPropertiesModel("eastus", NilSlice, NilSlice, NilSlice, NilSlice),
     ServiceRegionPropertiesModel("eastus", MkSlice(<<>>), MkSlice(<<>>), MkSlice(<<>>),
        MkSlice(<<>>))}
RoundTripModels ==
    {[ProfileA EXCEPT
        !.Codecs = codec, !.E911Type = e, !.Platforms = platforms,
        !.EmergencyDialStrings = dial, !.OnPremMcpEnabled = flag,
        !.MicrosoftTeamsVoicemailPilotNumber = pilot, !.Tags = tags,
        !.ServiceLocation = MkSlice(sl)] :
        codec \in Codecs, e \in E911Types,
        platforms \in {MkSlice(<<>>), MkSlice(<<"OperatorConnect">>),
                       MkSlice(<<"OperatorConnect", "TeamsPhoneMobile">>),
                       MkSlice(<<"TeamsPhoneMobile", "OperatorConnect">>)},
        dial \in {NilSlice, MkSlice(<<>>), MkSlice(<<"911", "112">>)},
        flag \in BOOLEAN, pilot \in {"", "+15550100"},
        tags \in {NilMap, MkMap({<<"env", "prod">>})},
        sl \in SeqsUpTo(RoundTripEntries, MaxLocs)}
TranslateModels == ExpandModels \cup RoundTripModels

InitTranslate == Init /\ id = ""
DoExpand == Idle /\ \E m \in TranslateModels : Create(m, NotFound, FALSE)
\* Read is given the resource the Create before it sent
ReadBack == op = "Create" /\ result = ResultOK /\ Read(Found(Deref(sent)))
NextTranslate == DoExpand \/ ReadBack \/ Return
SpecTranslate == InitTranslate /\ [][NextTranslate]_vars

----------------------------------------------------------------------------
(* Properties *)

\* what the handler that ran last did
Issued(call) == \E i \in 1..Len(calls) : calls[i] = call
GetResponse == Deref(fetched)

\* the ESRP rule as the schema's two emergency modes state it
EsrpViolation(e911, entry) ==
    \/ e911 = E911TypeStandard /\ GoLen(entry.EsrpAddresses) > 0
    \/ e911 = E911TypeDirectToEsrp /\ GoLen(entry.EsrpAddresses) = 0
ViolatesEsrpRule(m) ==
    \E i \in 1..GoLen(m.ServiceLocation) :
        EsrpViolation(m.E911Type, Elems(m.ServiceLocation)[i])

\* C1: CustomizeDiff returns a validation error exactly when some
\* service_location entry has esrp_addresses under Standard or lacks them
\* under DirectToEsrp; every other model passes with no error.
C1_EsrpCheckIffViolation ==
    op = "CustomizeDiff" =>
        /\ (result \in {ErrEsrpStandard, ErrEsrpDirect}) <=> ViolatesEsrpRule(model)
        /\ ~ViolatesEsrpRule(model) => result = ResultOK
C1_Witness ==
    /\ op = "CustomizeDiff"
    /\ GoLen(model.ServiceLocation) = 2
    /\ ~EsrpViolation(model.E911Type, Elems(model.ServiceLocation)[1])
    /\ EsrpViolation(model.E911Type, Elems(model.ServiceLocation)[2])
    /\ result = ErrEsrpDirect

\* C2: a Create whose Get found the identity returns the import-required
\* error, issues no CreateOrUpdate and leaves the tracked id as it was; Create
\* issues CreateOrUpdate only after Get reported not-found.
C2_CreateConflict ==
    [][op' = "Create" =>
        /\ (fetched' # NilPtr /\ ~Deref(fetched').err /\ ~WasNotFound(Deref(fetched'))) =>
              /\ result' = ErrImportRequired
              /\ \A i \in 1..Len(calls') : calls'[i] # "CreateOrUpdate"
              /\ sent' = NilPtr
              /\ id' = id
        /\ (\E i \in 1..Len(calls') : calls'[i] = "CreateOrUpdate") =>
              /\ fetched' # NilPtr
              /\ WasNotFound(Deref(fetched'))]_vars
C2_Witness ==
    /\ op = "Create"
    /\ fetched = AddrOf(Found(RemoteFull))
    /\ result = ErrImportRequired
    /\ id = ""

\* the remote sub-field each configuration key is written to
PropertyOf ==
    [codecs |-> "Codecs", e911_type |-> "E911Type", platforms |-> "Platforms",
     service_location |-> "ServiceLocations", api_bridge |-> "ApiBridge",
     emergency_dial_strings |-> "EmergencyDialStrings",
     on_prem_mcp_enabled |-> "OnPremMcpEnabled",
     microsoft_teams_voicemail_pilot_number |-> "TeamsVoicemailPilotNumber"]
ImmutableProperties == {"Connectivity", "AutoGeneratedDomainNameLabelScope"}

\* C3: the resource Update sends equals the fetched one in every sub-field
\* whose key is not marked changed, and in location, connectivity and the
\* domain-label scope whatever is marked changed.
C3_PartialUpdate ==
    (op = "Update" /\ Issued("CreateOrUpdate")) =>
        LET f == Deref(GetResponse.Model)
            s == Deref(sent)
        IN  /\ s.Location = f.Location
            /\ "tags" \notin changed => s.Tags = f.Tags
            /\ (f.Properties = NilPtr) <=> (s.Properties = NilPtr)
            /\ f.Properties # NilPtr =>
                  /\ \A k \in DOMAIN PropertyOf :
                        k \notin changed =>
                            Deref(s.Properties)[PropertyOf[k]] = Deref(f.Properties)[PropertyOf[k]]
                  /\ \A field \in ImmutableProperties :
                        Deref(s.Properties)[field] = Deref(f.Properties)[field]
C3_Witness ==
    /\ op = "Update"
    /\ changed = {"codecs"}
    /\ fetched = AddrOf(Found(RemoteFull))
    /\ model.Codecs = "PCMU"
    /\ Issued("CreateOrUpdate")
    /\ Deref(Deref(sent).Properties).Codecs = MkSlice(<<"PCMU">>)
    /\ Deref(Deref(sent).Properties).Platforms = MkSlice(<<"TeamsPhoneMobile">>)

\* C4: a Read whose Get reported not-found clears the tracked id, returns no
\* error and encodes no state; a Read whose Get failed otherwise returns an
\* error and leaves the tracked id in place.
C4_ReadTolerance ==
    [][(op' = "Read" /\ fetched' # NilPtr /\ Deref(fetched').err) =>
        IF WasNotFound(Deref(fetched'))
        THEN id' = "" /\ result' = ResultOK /\ encoded' = NilPtr
        ELSE result' \in Errors /\ id' = id /\ id' # "" /\ encoded' = NilPtr]_vars
C4_Witness ==
    /\ op = "Read"
    /\ fetched = AddrOf(NotFound)
    /\ id = ""
    /\ result = ResultOK
    /\ encoded = NilPtr

\* the preconditions of the round trip
FullyPopulated(entry) ==
    /\ GoLen(entry.OperatorAddresses) > 0
    /\ GoLen(entry.AllowedMediaSourceAddressPrefixes) > 0
    /\ GoLen(entry.AllowedSignalingSourceAddressPrefixes) > 0
    /\ GoLen(entry.EsrpAddresses) > 0
RoundTripInput(m) ==
    /\ m.Codecs \in Codecs
    /\ GoLen(m.Platforms) > 0
    /\ \A i \in 1..GoLen(m.ServiceLocation) : FullyPopulated(Elems(m.ServiceLocation)[i])

SentViolatesEsrpRule(res) ==
    LET properties == Deref(res.Properties)
        regions == Elems(properties.ServiceLocations)
        esrpLen(r) == IF r.PrimaryRegionProperties.EsrpAddresses = NilPtr THEN 0
                      ELSE GoLen(Deref(r.PrimaryRegionProperties.EsrpAddresses))
    IN  \E i \in 1..Len(regions) :
            \/ properties.E911Type = E911TypeStandard /\ esrpLen(regions[i]) > 0
            \/ properties.E911Type = E911TypeDirectToEsrp /\ esrpLen(regions[i]) = 0

\* C6 as stated: a Create whose model violates the ESRP rule fails and issues
\* no CreateOrUpdate.
C6_CreateChecksEsrp ==
    (op = "Create" /\ ViolatesEsrpRule(model)) =>
        result \in Errors /\ ~Issued("CreateOrUpdate")

\* C6: the ESRP check is CustomizeDiff's, which issues no remote call; Create
\* does not repeat it.  For every model CustomizeDiff accepts, the resource
\* Create sends keeps the rule: the e911 type is the model's and every region
\* has ESRP addresses exactly under DirectToEsrp.
C6_AcceptedModelSentCompliant ==
    /\ op = "CustomizeDiff" => calls = <<>> /\ sent = NilPtr /\ fetched = NilPtr
    /\ (op = "Create" /\ Issued("CreateOrUpdate") /\ CustomizeDiffRun(model) = ResultOK) =>
          /\ Deref(Deref(sent).Properties).E911Type = model.E911Type
          /\ Len(Elems(Deref(Deref(sent).Properties).ServiceLocations))
                = GoLen(model.ServiceLocation)
          /\ ~SentViolatesEsrpRule(Deref(sent))
C6_Witness ==
    /\ op = "Create"
    /\ Issued("CreateOrUpdate")
    /\ CustomizeDiffRun(model) = ResultOK
    /\ model.E911Type = E911TypeDirectToEsrp
    /\ GoLen(model.ServiceLocation) = 2
    /\ result = ResultOK

BadApiBridge(m) == m.ApiBridge # "" /\ Unmarshal(m.ApiBridge).err

\* C7 as stated: when Create or Update returns the api_bridge parse error,
\* no remote call has been issued, Get included.
C7_ParseErrorBeforeAnyCall ==
    (op \in {"Create", "Update"} /\ result = ErrUnmarshal) => calls = <<>>

\* C7: when api_bridge is non-empty and does not parse, Create, and Update
\* with api_bridge marked changed, do not succeed and issue no
\* CreateOrUpdate; the parse error itself is returned after the Get has been
\* issued and before any mutating call.
C7_ParseErrorBeforeMutation ==
    /\ (/\ op \in {"Create", "Update"}
        /\ BadApiBridge(model)
        /\ op = "Update" => "api_bridge" \in changed) =>
          /\ result # ResultOK
          /\ ~Issued("CreateOrUpdate")
          /\ sent = NilPtr
    /\ result = ErrUnmarshal =>
          /\ op \in {"Create", "Update"}
          /\ BadApiBridge(model)
          /\ calls = <<"Get">>
C7_Witness ==
    /\ op = "Update"
    /\ result = ErrUnmarshal
    /\ calls = <<"Get">>
    /\ fetched = AddrOf(Found(RemoteFull))
    /\ changed = {"api_bridge"}

\* C8: Create sends api_bridge as a non-nil pointer, to the nil value when
\* the input is empty and to the parsed value otherwise; Update with
\* api_bridge marked changed sends a nil pointer when the input is empty and
\* a non-nil pointer to the parsed value otherwise.
C8_ApiBridgeEmptyInput ==
    (op \in {"Create", "Update"} /\ Issued("CreateOrUpdate")
        /\ Deref(sent).Properties # NilPtr) =>
        LET apiBridge == Deref(Deref(sent).Properties).ApiBridge
        IN  /\ op = "Create" =>
                 /\ apiBridge # NilPtr
                 /\ model.ApiBridge = "" => apiBridge = AddrOf(NilIface)
                 /\ model.ApiBridge # "" => apiBridge = AddrOf(Unmarshal(model.ApiBridge).val)
            /\ (op = "Update" /\ "api_bridge" \in changed) =>
                 /\ model.ApiBridge = "" => apiBridge = NilPtr
                 /\ model.ApiBridge # "" =>
                       /\ apiBridge # NilPtr
                       /\ apiBridge = AddrOf(Unmarshal(model.ApiBridge).val)
C8_Witness ==
    /\ op = "Update"
    /\ "api_bridge" \in changed
    /\ model.ApiBridge = ""
    /\ fetched = AddrOf(Found(RemoteFull))
    /\ Issued("CreateOrUpdate")
    /\ Deref(Deref(sent).Properties).ApiBridge = NilPtr

\* C9: an Update whose Get reported not-found returns an error and issues no
\* CreateOrUpdate; a Delete whose remote delete reported not-found returns an
\* error; both leave the tracked id in place.
C9_NotFoundFatalOutsideRead ==
    [][/\ (op' = "Update" /\ fetched' = AddrOf(NotFound)) =>
            /\ result' \in Errors
            /\ \A i \in 1..Len(calls') : calls'[i] # "CreateOrUpdate"
            /\ sent' = NilPtr
            /\ id' = id /\ id' # ""
       /\ (op' = "Delete" /\ deleted' = AddrOf(NotFound)) =>
            /\ result' \in Errors
            /\ id' = id /\ id' # ""]_vars
C9_Witness ==
    /\ op = "Delete"
    /\ deleted = AddrOf(NotFound)
    /\ result = ErrDeleting
    /\ id = IdString(GatewayID)

\* C10: in every expanded entry each of the media-prefix, signaling-prefix
\* and ESRP lists is a nil pointer when the input slice is nil and a pointer
\* to the slice, empty or not, otherwise, whatever the other lists are; the
\* operator addresses are the input slice itself.
C10_ExpandAddressLists ==
    (op = "Create" /\ Issued("CreateOrUpdate")) =>
        LET regions == Elems(Deref(Deref(sent).Properties).ServiceLocations)
            entries == Elems(model.ServiceLocation)
        IN  /\ Len(regions) = Len(entries)
            /\ \A i \in 1..Len(entries) :
                  /\ \A list \in {"AllowedMediaSourceAddressPrefixes",
                                  "AllowedSignalingSourceAddressPrefixes", "EsrpAddresses"} :
                        LET input == entries[i][list]
                            output == regions[i].PrimaryRegionProperties[list]
                        IN  /\ IsNilSlice(input) => output = NilPtr
                            /\ input = MkSlice(<<>>) => output = AddrOf(MkSlice(<<>>))
                            /\ ~IsNilSlice(input) => output = AddrOf(input)
                  /\ regions[i].PrimaryRegionProperties.OperatorAddresses
                        = entries[i].OperatorAddresses
C10_Witness ==
    /\ op = "Create"
    /\ Issued("CreateOrUpdate")
    /\ GoLen(model.ServiceLocation) = 1
    /\ Elems(model.ServiceLocation)[1].AllowedMediaSourceAddressPrefixes = NilSlice
    /\ Elems(model.ServiceLocation)[1].AllowedSignalingSourceAddressPrefixes = MkSlice(<<>>)
    /\ Elems(model.ServiceLocation)[1].EsrpAddresses = MkSlice(<<"198.51.100.1">>)
    /\ Elems(Deref(Deref(sent).Properties).ServiceLocations)[1].PrimaryRegionProperties
          = [AllowedMediaSourceAddressPrefixes |-> NilPtr,
             AllowedSignalingSourceAddressPrefixes |-> AddrOf(MkSlice(<<>>)),
             EsrpAddresses |-> AddrOf(MkSlice(<<"198.51.100.1">>)),
             OperatorAddresses |-> MkSlice(<<"192.0.2.1">>)]

\* the keys whose write goes through properties.Properties
PropertyKeys == DOMAIN PropertyOf

\* C11: whatever resource a successful Get returned, one without a properties
\* block included, and whatever keys are marked changed, Update ends by
\* returning an error or by issuing CreateOrUpdate: it never aborts on a write
\* through an absent properties block.
C11_UpdateNeverAborts ==
    op = "Update" =>
        /\ result # Panic
        /\ result \in Errors \/ Issued("CreateOrUpdate")

====
